---- MODULE Spec2Model ----
(***************************************************************************)
(* pw-resolved-discover: discovery of RAOP receivers through               *)
(* systemd-resolved.  Three execution contexts are modelled:               *)
(*   - the presence loop   (found_mdns,    src/src/main.rs 101-154)        *)
(*   - the resolver loop   (resolved_mdns, src/src/main.rs 156-245)        *)
(*   - the registry timer  (main,          src/src/main.rs 247-363)        *)
(* together with the record decoder (src/src/rr.rs).                       *)
(*                                                                         *)
(* Strings are sequences of code points, byte buffers are sequences of     *)
(* numbers in 0..255.                                                      *)
(***************************************************************************)
EXTENDS Integers, Sequences, FiniteSets, TLC

\* ------------------------------------------------------------------------
\* Program constants
\* ------------------------------------------------------------------------
CLASS_IN == 1
TYPE_PTR == 12
AF_INET4 == 2
AF_INET6 == 10
\* the hysteresis budget given to a sighted host (retries: 8)
RETRIES == 8

\* ------------------------------------------------------------------------
\* Bounds of the model
\* ------------------------------------------------------------------------
\* longest browse response (number of records) the resolve1 service returns
MaxRecs == 2
\* saturation of the ghost counter of consecutive absent cycles
MaxAbsent == 10
\* number of Discovered events the resolver loop may put on the channel
MaxSent == 3
\* longest list of TXT strings drawn from TxtEntries for one event
MaxTxt == 2
\* longest address list drawn from ScopeIps for one SRV tuple
MaxIps == 2
\* most bytes that follow an encoded record in the buffer handed to parse_rr
MaxTrail == 1

\* ------------------------------------------------------------------------
\* Small helpers
\* ------------------------------------------------------------------------
SeqsUpTo(S, n) == UNION {[1..k -> S] : k \in 0..n}

Drop(s, n) == SubSeq(s, n + 1, Len(s))

Min(a, b) == IF a < b THEN a ELSE b

\* ------------------------------------------------------------------------
\* Record decoder (src/src/rr.rs)
\* ------------------------------------------------------------------------
\* String::from_utf8_lossy on a label.  ASCII bytes decode to themselves,
\* a well-formed two-byte sequence decodes to its code point, and a byte
\* that neither is ASCII nor starts such a sequence decodes to U+FFFD.
\* The inputs of this model use no lead byte of a three- or four-byte
\* sequence (0xE0..0xF4); for all other inputs this is exactly what the
\* library does.
RECURSIVE Utf8Lossy(_)
Utf8Lossy(bytes) ==
    IF bytes = <<>> THEN <<>>
    ELSE IF bytes[1] < 128 THEN <<bytes[1]>> \o Utf8Lossy(Tail(bytes))
    ELSE IF bytes[1] \in 194..223 /\ Len(bytes) >= 2 /\ bytes[2] \in 128..191
    THEN <<(bytes[1] - 192) * 64 + (bytes[2] - 128)>> \o Utf8Lossy(Drop(bytes, 2))
    ELSE <<65533>> \o Utf8Lossy(Tail(bytes))

\* nom's be_u8 / be_u16 / be_u32: Err on a short input.  The inputs of this
\* model keep the first byte of a be_u32 below 128.
be_u8(i) ==
    IF Len(i) < 1 THEN [tag |-> "err"]
    ELSE [tag |-> "ok", rest |-> Drop(i, 1), val |-> i[1]]

be_u16(i) ==
    IF Len(i) < 2 THEN [tag |-> "err"]
    ELSE [tag |-> "ok", rest |-> Drop(i, 2), val |-> i[1] * 256 + i[2]]

\* variant: the four bytes are read least significant first
be_u32_Little(i) ==
    IF Len(i) < 4 THEN [tag |-> "err"]
    ELSE [tag |-> "ok", rest |-> Drop(i, 4),
          val |-> ((i[4] * 256 + i[3]) * 256 + i[2]) * 256 + i[1]]

be_u32(i) ==
    IF Len(i) < 4 THEN [tag |-> "err"]
    ELSE [tag |-> "ok", rest |-> Drop(i, 4),
          val |-> ((i[1] * 256 + i[2]) * 256 + i[3]) * 256 + i[4]]

\* variant: a short input gives the bytes that are left
take_Short(n, i) ==
    [tag |-> "ok", rest |-> Drop(i, Min(n, Len(i))),
     val |-> SubSeq(i, 1, Min(n, Len(i)))]

\* nom::bytes::complete::take(n)
take(n, i) ==
    IF Len(i) < n THEN [tag |-> "err"]
    ELSE [tag |-> "ok", rest |-> Drop(i, n), val |-> SubSeq(i, 1, n)]

\* &remaining[0..label_end]: slicing past the end of the buffer panics
LabelSlice(remaining, label_end) ==
    IF label_end > Len(remaining) THEN [tag |-> "panic"]
    ELSE [tag |-> "ok", val |-> SubSeq(remaining, 1, label_end)]

\* the loop of parse_name: i is the unread input, res the name so far
RECURSIVE ParseNameLoop(_, _)
ParseNameLoop(i, res) ==
    LET b == be_u8(i) IN
    IF b.tag = "err" THEN [tag |-> "err"]
    ELSE IF b.val = 0 THEN [tag |-> "ok", rest |-> b.rest, val |-> res]
    ELSE LET label == LabelSlice(b.rest, b.val) IN
         IF label.tag = "panic" THEN [tag |-> "panic"]
         ELSE ParseNameLoop(Drop(b.rest, b.val),
                            res \o (IF res # <<>> THEN <<46>> ELSE <<>>)
                                \o Utf8Lossy(label.val))

parse_name(input) == ParseNameLoop(input, <<>>)

parse_rr(input) ==
    LET n == parse_name(input) IN
    IF n.tag # "ok" THEN [tag |-> n.tag] ELSE
    LET t == be_u16(n.rest) IN
    IF t.tag # "ok" THEN [tag |-> "err"] ELSE
    LET c == be_u16(t.rest) IN
    IF c.tag # "ok" THEN [tag |-> "err"] ELSE
    LET l == be_u32(c.rest) IN
    IF l.tag # "ok" THEN [tag |-> "err"] ELSE
    LET d == be_u16(l.rest) IN
    IF d.tag # "ok" THEN [tag |-> "err"] ELSE
    LET p == take(d.val, d.rest) IN
    IF p.tag # "ok" THEN [tag |-> "err"] ELSE
    [tag |-> "ok", rest |-> p.rest,
     val |-> [name |-> n.val, type_ |-> t.val, class |-> c.val,
              ttl |-> l.val, rdata |-> p.val]]

\* ------------------------------------------------------------------------
\* What the resolve1 service can answer (the inputs of the two loops)
\* ------------------------------------------------------------------------
\* wire form of one resource record
WireRR(name, type_, class, rdata) ==
    name \o <<type_ \div 256, type_ % 256>> \o <<class \div 256, class % 256>>
         \o <<0, 0, 0, 120>> \o <<Len(rdata) \div 256, Len(rdata) % 256>> \o rdata

\* UTF-8 of a string of code points below U+0800
RECURSIVE Utf8Encode(_)
Utf8Encode(str) ==
    IF str = <<>> THEN <<>>
    ELSE (IF str[1] < 128 THEN <<str[1]>>
          ELSE <<192 + (str[1] \div 64), 128 + (str[1] % 64)>>) \o Utf8Encode(Tail(str))

\* wire form of a name: length-prefixed labels and the zero terminator
RECURSIVE EncodeName(_)
EncodeName(labels) ==
    IF labels = <<>> THEN <<0>>
    ELSE <<Len(Utf8Encode(Head(labels)))>> \o Utf8Encode(Head(labels))
            \o EncodeName(Tail(labels))

\* wire form of a record [labels, type_, class, ttl, rdata]
EncodeRR(rec) ==
    EncodeName(rec.labels)
        \o <<rec.type_ \div 256, rec.type_ % 256>>
        \o <<rec.class \div 256, rec.class % 256>>
        \o <<rec.ttl \div 16777216, (rec.ttl \div 65536) % 256,
              (rec.ttl \div 256) % 256, rec.ttl % 256>>
        \o <<Len(rec.rdata) \div 256, Len(rec.rdata) % 256>>
        \o rec.rdata

\* synthetic records: the root name, one label, two labels of which the
\* second is "\u{e9}x"; PTR/IN and other type and class values; ttl values
\* whose four bytes differ; an empty payload, a name and two loose bytes
SynthRecords ==
    {[labels |-> l, type_ |-> tc[1], class |-> tc[2], ttl |-> tc[3], rdata |-> p] :
        l \in {<<>>, <<(<<114>>)>>, <<(<<97, 46>>), (<<233, 120>>)>>},
        tc \in {<<TYPE_PTR, CLASS_IN, 120>>, <<258, 3, 16909060>>},
        p \in {<<>>, <<1, 97, 0>>, <<9, 9>>}}

\* the bytes that can follow a record in its buffer
Trailings == SeqsUpTo({0, 7}, MaxTrail)

\* the buffers handed to parse_rr: every synthetic record followed by
\* trailing bytes, and every proper prefix of an encoded record
DecodeInputs ==
    {EncodeRR(rec) \o t : rec \in SynthRecords, t \in Trailings} \cup
    UNION {{SubSeq(EncodeRR(rec), 1, k) : k \in 0..(Len(EncodeRR(rec)) - 1)} :
              rec \in SynthRecords}

\* the browsed name, shortened to the single label "r"
WireService == <<1, 114, 0>>

\* one element of a resolve_record answer: (ifindex, class, type, data)
BrowseRecord(ifindex, class, type_, data) ==
    [ifindex |-> ifindex, class |-> class, type_ |-> type_, data |-> data]

\* PTR record to the instance "a" / "b"
RecA == BrowseRecord(2, CLASS_IN, TYPE_PTR,
                     WireRR(WireService, TYPE_PTR, CLASS_IN, <<1, 97, 0>>))
RecB == BrowseRecord(2, CLASS_IN, TYPE_PTR,
                     WireRR(WireService, TYPE_PTR, CLASS_IN, <<1, 98, 0>>))
\* the record is cut in the middle of its ttl
RecTruncated == BrowseRecord(2, CLASS_IN, TYPE_PTR, <<1, 114, 0, 0, 12, 0, 1, 0>>)
\* the answer element carries another class than the one asked for
RecOtherClass == BrowseRecord(2, 3, TYPE_PTR,
                     WireRR(WireService, TYPE_PTR, 3, <<1, 97, 0>>))
\* the pointer target holds a label of declared length 5 with 1 byte left
RecLongLabel == BrowseRecord(2, CLASS_IN, TYPE_PTR,
                     WireRR(WireService, TYPE_PTR, CLASS_IN, <<5, 97>>))

AllBrowseRecords == {RecA, RecB, RecTruncated, RecOtherClass, RecLongLabel}

\* one answer of resolve_service: the SRV tuples (priority, weight, port,
\* hostname, ips, domain) and the TXT byte strings
Ip(ifindex, af, address) == [ifindex |-> ifindex, af |-> af, address |-> address]

Srv(port, hostname, ips) ==
    [priority |-> 0, weight |-> 0, port |-> port, hostname |-> hostname,
     ips |-> ips, domain |-> <<97>>]

AddrV4a == <<10, 0, 0, 1>>
\* fe80::1
AddrLinkLocal == <<254, 128, 0, 0, 0, 0, 0, 0, 0, 0, 0, 0, 0, 0, 0, 1>>

\* "am=K"
TxtName == <<97, 109, 61, 75>>

\* one IPv4 address
SvcOne == [srvs |-> <<Srv(7000, <<104>>, <<Ip(2, AF_INET4, AddrV4a)>>)>>,
           txt |-> <<TxtName>>]
\* a link-local IPv6 address on interface 3, an address of a length that
\* fits no family, then the IPv4 address
SvcTwo == [srvs |-> <<Srv(7000, <<104>>, <<Ip(3, AF_INET6, AddrLinkLocal),
                                          Ip(2, AF_INET4, <<10, 0, 0>>),
                                          Ip(2, AF_INET4, AddrV4a)>>)>>,
           txt |-> <<TxtName>>]

AllServices == {SvcOne, SvcTwo}

\* 2001:db8::1, febf::1 (the last prefix of fe80::/10) and fec0::1
AddrGlobal == <<32, 1, 13, 184, 0, 0, 0, 0, 0, 0, 0, 0, 0, 0, 0, 1>>
AddrLinkLocalHigh == <<254, 191, 0, 0, 0, 0, 0, 0, 0, 0, 0, 0, 0, 0, 0, 1>>
AddrSiteLocal == <<254, 192, 0, 0, 0, 0, 0, 0, 0, 0, 0, 0, 0, 0, 0, 1>>

\* address tuples (ifindex, family, address) of a resolve_service answer:
\* IPv6 in and out of fe80::/10, IPv4, an IPv4 address of 3 bytes, 4 bytes
\* under the IPv6 family, and a family that is neither
ScopeIps ==
    {Ip(3, AF_INET6, AddrLinkLocal), Ip(3, AF_INET6, AddrLinkLocalHigh),
     Ip(3, AF_INET6, AddrSiteLocal), Ip(3, AF_INET6, AddrGlobal),
     Ip(2, AF_INET4, AddrV4a), Ip(2, AF_INET4, <<10, 0, 0>>),
     Ip(3, AF_INET6, AddrV4a), Ip(2, 1, AddrV4a)}

\* a receiver with the given address tuples
SvcWith(ips) == [srvs |-> <<Srv(7000, <<104>>, ips)>>, txt |-> <<TxtName>>]

\* TXT strings as the timer callback sees them:
\* "tp=UDP", "tp=TCP", "tp=TCP,UDP", "tp=X"
\* "et=1", "et=4", "et=0,4", "et=0"
\* "cn=0", "cn=2", "cn=3", "cn=0,1", "cn=99"
\* "am=K", "am=Kitchen", and "x" which carries none of the prefixes
TxtEntries ==
    {<<116, 112, 61, 85, 68, 80>>, <<116, 112, 61, 84, 67, 80>>,
     <<116, 112, 61, 84, 67, 80, 44, 85, 68, 80>>, <<116, 112, 61, 88>>,
     <<101, 116, 61, 49>>, <<101, 116, 61, 52>>, <<101, 116, 61, 48, 44, 52>>,
     <<101, 116, 61, 48>>,
     <<99, 110, 61, 48>>, <<99, 110, 61, 50>>, <<99, 110, 61, 51>>,
     <<99, 110, 61, 48, 44, 49>>, <<99, 110, 61, 57, 57>>,
     <<97, 109, 61, 75>>, <<97, 109, 61, 75, 105, 116, 99, 104, 101, 110>>,
     <<120>>}

\* ["tp=TCP", "et=1", "cn=2", "am=Kitchen"]
TxtKitchen ==
    <<(<<116, 112, 61, 84, 67, 80>>), (<<101, 116, 61, 49>>), (<<99, 110, 61, 50>>),
      (<<97, 109, 61, 75, 105, 116, 99, 104, 101, 110>>)>>

\* ["cn=99"]
TxtCn99 == <<(<<99, 110, 61, 57, 57>>)>>

\* the TXT lists of the events handed to the timer callback
TxtLists == SeqsUpTo(TxtEntries, MaxTxt) \cup {TxtKitchen, TxtCn99}

\* The advertisements on the link.  The loops of one run draw every answer
\* of the resolve1 service from the network the run started with.
FullNet == [browse |-> AllBrowseRecords, svc |-> AllServices]
\* a link with one receiver that has two addresses, beside a record cut
\* short and a record with an overlong label
PipelineNet == [browse |-> {RecA, RecTruncated, RecLongLabel}, svc |-> AllServices]
\* a link with a single receiver that has a single address
SingleNet == [browse |-> {RecA}, svc |-> {SvcOne}]

\* ------------------------------------------------------------------------
\* State
\* ------------------------------------------------------------------------
VARIABLES
    net,              \* what the resolve1 service can answer in this run
    \* presence loop (found_mdns)
    ppc,              \* position: "query", "records", "sleep", "panicked"
    precs,            \* records of the answer not yet handled by the for loop
    resolved_this_time,
    resolved,
    added_log,        \* hosts reported "added host" by the current iteration
    removed_log,      \* hosts reported "removed host" by the current iteration
    absent,           \* ghost: consecutive successful cycles without a sighting
    gap,              \* ghost: value of absent a host had when this cycle sighted it
    psince,           \* ghost: what preceded the last resolve_record call
    \* resolver loop (resolved_mdns)
    rpc,              \* "query", "records", "send", "sleep", "done", "panicked"
    rrecs,            \* records of the answer not yet handled by the for loop
    rpending,         \* events of the current record still to be sent
    rsince,           \* ghost: what preceded the last resolve_record call
    rfailed,          \* ghost: resolve_service failures of the current cycle
    rlen,             \* ghost: number of records of the current answer
    rhandled,         \* ghost: records of it the for loop has entered its body for
    \* channel and registry (main)
    rx_alive,         \* the Receiver (owned by the timer closure) exists
    chan,             \* events in the mpsc channel
    tunnels,          \* HashMap<TunnelKey, Tunnel>
    load_calls,       \* ghost: pw_context_load_module calls per key
    loaded,           \* ghost: per key, the event and the properties of the call
    tick,             \* ghost: the latest timer invocation: "empty" or "event"
    sent,             \* ghost: every event tx.send accepted, in order
    taken             \* ghost: every event the timer callback took, in order

presence_vars == <<ppc, precs, resolved_this_time, resolved, added_log,
                   removed_log, absent, gap, psince>>
resolver_vars == <<rpc, rrecs, rpending, rsince, rfailed, rlen, rhandled>>
registry_vars == <<rx_alive, chan, tunnels, load_calls, loaded, tick, sent, taken>>
vars == <<net, presence_vars, resolver_vars, registry_vars>>

\* ------------------------------------------------------------------------
\* Presence loop (found_mdns)
\* ------------------------------------------------------------------------
\* derived PartialEq/Ord of ResolvedHost: retries is ignored
Key(h) == <<h.ifindex, h.name, h.domain>>

Keys(S) == {Key(h) : h \in S}

HasKey(S, h) == \E y \in S : Key(y) = Key(h)

\* BTreeSet::insert: an equal element already in the set is kept
BTreeInsert(S, h) == IF HasKey(S, h) THEN S ELSE S \cup {h}

\* BTreeSet::difference: the elements of S with no equal element in T
BTreeDifference(S, T) == {h \in S : ~HasKey(T, h)}

\* BTreeSet::extend with the elements of a Vec whose keys are distinct
BTreeExtend(S, T) == S \cup {h \in T : ~HasKey(S, h)}

\* body of `for record in records` (lines 116-132) for one record:
\* "skip" (logged, continue), "panic", or the host to insert
PresenceRecord(record) ==
    IF record.class # CLASS_IN \/ record.type_ # TYPE_PTR THEN [tag |-> "skip"]
    ELSE LET rr == parse_rr(record.data) IN
    IF rr.tag = "panic" THEN [tag |-> "panic"]
    ELSE IF rr.tag = "err" THEN [tag |-> "skip"]
    ELSE IF rr.val.class # CLASS_IN \/ rr.val.type_ # TYPE_PTR THEN [tag |-> "skip"]
    ELSE LET domain == parse_name(rr.val.rdata) IN
    IF domain.tag = "panic" THEN [tag |-> "panic"]
    ELSE IF domain.tag = "err" THEN [tag |-> "skip"]
    ELSE [tag |-> "host",
          host |-> [ifindex |-> record.ifindex, name |-> rr.val.name,
                    domain |-> domain.val, retries |-> RETRIES]]

\* lines 134-145: the hosts of the stable set missing from this cycle
Disappeared(old, this) == BTreeDifference(old, this)

\* variant: a host is reported removed while it has one retry left
RemovedHosts_OffByOne(old, this) == {h \in Disappeared(old, this) : h.retries <= 1}

\* lines 136-137: reported "removed host"
RemovedHosts(old, this) == {h \in Disappeared(old, this) : h.retries = 0}

\* variant: a host without retries left is kept as well
Readd_KeepZero(old, this) ==
    {[h EXCEPT !.retries = IF h.retries = 0 THEN 0 ELSE h.retries - 1] :
        h \in Disappeared(old, this)}

\* variant: a kept host keeps its retries
Readd_NoDecrement(old, this) == {x \in Disappeared(old, this) : x.retries # 0}

\* lines 138-144: kept with one retry less
Readd(old, this) ==
    {[h EXCEPT !.retries = h.retries - 1] :
        h \in {x \in Disappeared(old, this) : x.retries # 0}}

\* variant: the entry of the previous stable set wins over the new sighting
NextStable_KeepOld(old, this) ==
    BTreeExtend(BTreeExtend({h \in old : HasKey(this, h)}, this), Readd(old, this))

\* line 146
NextStable(old, this) == BTreeExtend(this, Readd(old, this))

\* variant: every host sighted in this cycle is reported
AddedHosts_Sighted(old, this) == this

\* lines 147-149: reported "added host"
AddedHosts(old, this) == BTreeDifference(NextStable(old, this), old)

\* the identities the records of the model can decode to
HostKeys ==
    {Key(PresenceRecord(r).host) :
        r \in {x \in AllBrowseRecords : PresenceRecord(x).tag = "host"}}

\* ghost bookkeeping of one successful cycle
AbsentAfter(this) ==
    [k \in HostKeys |->
        IF k \in Keys(this) THEN 0
        ELSE IF absent[k] = -1 THEN -1
        ELSE Min(absent[k] + 1, MaxAbsent)]

GapAfter(this) ==
    [k \in HostKeys |-> IF k \in Keys(this) THEN absent[k] ELSE -1]

\* what preceded a resolve_record call: a sleep, or a call with no sleep since
SinceAtQuery(since) == IF since \in {"query", "retry"} THEN "retry" ELSE "query"

\* the outcomes of proxy.resolve_record: an error, or an answer of up to
\* MaxRecs records, and of no more records than the link has advertisements
BrowseAnswers ==
    {[tag |-> "Err", records |-> <<>>]} \cup
    {[tag |-> "Ok", records |-> s] :
        s \in SeqsUpTo(net.browse, Min(MaxRecs, Cardinality(net.browse)))}

\* variant: a failed query counts as a cycle without sightings
PQuery_CountsFailure ==
    /\ ppc = "query"
    /\ psince' = SinceAtQuery(psince)
    /\ \E answer \in BrowseAnswers :
         /\ ppc' = IF answer.tag = "Err" THEN "query" ELSE "records"
         /\ precs' = answer.records
         /\ resolved' = IF answer.tag = "Err" THEN NextStable(resolved, {})
                         ELSE resolved
    /\ resolved_this_time' = {}
    /\ UNCHANGED <<added_log, removed_log, absent, gap>>
    /\ UNCHANGED <<net, resolver_vars, registry_vars>>

\* try_continue!(proxy.resolve_record(..)) at the top of the loop (lines
\* 107-114).  On Err the macro logs and continues the enclosing `loop`,
\* which does not pass the sleep of line 151.
PQuery ==
    /\ ppc = "query"
    /\ psince' = SinceAtQuery(psince)
    /\ \E answer \in BrowseAnswers :
         /\ ppc' = IF answer.tag = "Err" THEN "query" ELSE "records"
         /\ precs' = answer.records
    /\ resolved_this_time' = {}
    /\ UNCHANGED <<resolved, added_log, removed_log, absent, gap>>
    /\ UNCHANGED <<net, resolver_vars, registry_vars>>

\* one iteration of `for record in records` (lines 115-133)
PRecord ==
    /\ ppc = "records"
    /\ precs # <<>>
    /\ LET r == PresenceRecord(Head(precs)) IN
         IF r.tag = "panic"
         THEN \* the thread unwinds: the loop is gone
              /\ ppc' = "panicked"
              /\ precs' = <<>>
              /\ resolved_this_time' = {}
         ELSE /\ ppc' = "records"
              /\ precs' = Tail(precs)
              /\ resolved_this_time' =
                    IF r.tag = "host" THEN BTreeInsert(resolved_this_time, r.host)
                    ELSE resolved_this_time
    /\ UNCHANGED <<resolved, added_log, removed_log, absent, gap, psince>>
    /\ UNCHANGED <<net, resolver_vars, registry_vars>>

\* lines 134-150: reconcile the answer with the stable set
PReconcile ==
    /\ ppc = "records"
    /\ precs = <<>>
    /\ removed_log' = Keys(RemovedHosts(resolved, resolved_this_time))
    /\ added_log' = Keys(AddedHosts(resolved, resolved_this_time))
    /\ resolved' = NextStable(resolved, resolved_this_time)
    /\ resolved_this_time' = {}
    /\ absent' = AbsentAfter(resolved_this_time)
    /\ gap' = GapAfter(resolved_this_time)
    /\ ppc' = "sleep"
    /\ UNCHANGED <<precs, psince>>
    /\ UNCHANGED <<net, resolver_vars, registry_vars>>

\* line 151: std::thread::sleep(3 s), then the next iteration
PSleep ==
    /\ ppc = "sleep"
    /\ ppc' = "query"
    /\ psince' = "sleep"
    /\ added_log' = {}
    /\ removed_log' = {}
    /\ gap' = [k \in HostKeys |-> -1]
    /\ UNCHANGED <<precs, resolved_this_time, resolved, absent>>
    /\ UNCHANGED <<net, resolver_vars, registry_vars>>

PresenceNext == PQuery \/ PRecord \/ PReconcile \/ PSleep

\* ------------------------------------------------------------------------
\* Resolver loop (resolved_mdns)
\* ------------------------------------------------------------------------
\* variant: every address starting with 0xfe counts as link-local
is_unicast_link_local_AnyFe(addr) == addr[1] = 254

\* Ipv6Addr::is_unicast_link_local: fe80::/10
is_unicast_link_local(addr) == addr[1] = 254 /\ addr[2] \div 64 = 2

\* `ifindex as u32`: an interface index is positive, and the cast keeps
\* the value of every non-negative i32
AsU32(n) == n

\* lines 202-225: the socket address of one (ifindex, af, address) tuple,
\* or "skip" for an unknown family/length
SocketOf(ip, port) ==
    IF ip.af = AF_INET6 /\ Len(ip.address) = 16
    THEN [tag |-> "ok",
          socket |-> [version |-> 6, ip |-> ip.address, port |-> port,
                      flowinfo |-> 0,
                      scope_id |-> IF is_unicast_link_local(ip.address)
                                   THEN AsU32(ip.ifindex) ELSE 0]]
    ELSE IF ip.af = AF_INET4 /\ Len(ip.address) = 4
    THEN [tag |-> "ok",
          socket |-> [version |-> 4, ip |-> ip.address, port |-> port]]
    ELSE [tag |-> "skip"]

\* lines 193-196: the TXT strings
TxtStrings(txt) == [i \in 1..Len(txt) |-> Utf8Lossy(txt[i])]

\* lines 200-238 for one SRV tuple: the events of its addresses, in order
RECURSIVE IpEvents(_, _, _)
IpEvents(srv, ips, records) ==
    IF ips = <<>> THEN <<>>
    ELSE LET s == SocketOf(Head(ips), srv.port) IN
         (IF s.tag = "ok"
          THEN <<[hostname |-> srv.hostname, socket |-> s.socket, records |-> records]>>
          ELSE <<>>) \o IpEvents(srv, Tail(ips), records)

\* lines 198-239: the events of one resolve_service answer, in send order
RECURSIVE SrvEvents(_, _)
SrvEvents(srvs, records) ==
    IF srvs = <<>> THEN <<>>
    ELSE IpEvents(Head(srvs), Head(srvs).ips, records) \o SrvEvents(Tail(srvs), records)

Events(answer) == SrvEvents(answer.srvs, TxtStrings(answer.txt))

\* lines 176-182: decoding of one browse record, up to the domain handed
\* to resolve_service
ResolverRecord(record) ==
    LET rr == parse_rr(record.data) IN
    IF rr.tag = "panic" THEN [tag |-> "panic"]
    ELSE IF rr.tag = "err" THEN [tag |-> "skip"]
    ELSE IF record.type_ # TYPE_PTR \/ rr.val.type_ # TYPE_PTR THEN [tag |-> "skip"]
    ELSE LET domain == parse_name(rr.val.rdata) IN
    IF domain.tag = "panic" THEN [tag |-> "panic"]
    ELSE IF domain.tag = "err" THEN [tag |-> "skip"]
    ELSE [tag |-> "domain", domain |-> domain.val]

\* the outcomes of proxy.resolve_service: an error or an answer.  While the
\* receiver exists the answers are limited to those whose events fit MaxSent.
ServiceAnswers ==
    {[tag |-> "Err", events |-> <<>>]} \cup
    {[tag |-> "Ok", events |-> Events(a)] :
        a \in {x \in net.svc : ~rx_alive \/ Len(sent) + Len(Events(x)) <= MaxSent}}

\* try_continue!(proxy.resolve_record(..)) of lines 166-173
RQuery ==
    /\ rpc = "query"
    /\ rsince' = SinceAtQuery(rsince)
    /\ rfailed' = "no"
    /\ \E answer \in BrowseAnswers :
         /\ rpc' = IF answer.tag = "Err" THEN "query" ELSE "records"
         /\ rrecs' = answer.records
         /\ rlen' = Len(answer.records)
    /\ rhandled' = 0
    /\ UNCHANGED rpending
    /\ UNCHANGED <<net, presence_vars, registry_vars>>

\* variant: a resolve_service error leaves the for loop
AfterServiceError_Abandon(records) == <<>>

\* try_continue!(proxy.resolve_service(..)) of lines 183-191: on Err the
\* macro continues the enclosing `for record in records`
AfterServiceError(records) == Tail(records)

\* one iteration of `for record in records` up to the first send
\* (lines 175-199)
RRecord ==
    /\ rpc = "records"
    /\ rrecs # <<>>
    /\ LET d == ResolverRecord(Head(rrecs)) IN
         CASE d.tag = "panic" ->
                /\ rpc' = "panicked"
                /\ rrecs' = <<>>
                /\ UNCHANGED <<rpending, rfailed>>
           [] d.tag = "skip" ->
                /\ rpc' = "records"
                /\ rrecs' = Tail(rrecs)
                /\ UNCHANGED <<rpending, rfailed>>
           [] OTHER ->
                \E answer \in ServiceAnswers :
                   /\ rfailed' = IF rfailed # "no" THEN "continued"
                                 ELSE IF answer.tag = "Err" THEN "failed"
                                 ELSE "no"
                   /\ IF answer.tag = "Err"
                      THEN /\ rpc' = "records"
                           /\ rrecs' = AfterServiceError(rrecs)
                           /\ UNCHANGED rpending
                      ELSE /\ rpc' = "send"
                           /\ rrecs' = Tail(rrecs)
                           /\ rpending' = answer.events
    /\ rhandled' = rhandled + 1
    /\ UNCHANGED <<rsince, rlen>>
    /\ UNCHANGED <<net, presence_vars, registry_vars>>

\* variant: an event sent while another one is pending is lost
ChanSend_Lossy(q, msg) == IF q = <<>> THEN <<msg>> ELSE q

\* Sender::send on the unbounded channel: the event is appended
ChanSend(q, msg) == Append(q, msg)

\* variant: the error of tx.send is ignored and the loop goes on
AfterSendError_Ignored == "send"

\* lines 233-237: where the loop goes when tx.send returned Err
AfterSendError == "done"

\* variant: the channel holds one event and a send waits while it is full
RSend_Rendezvous ==
    /\ rpc = "send"
    /\ IF rpending = <<>>
       THEN /\ rpc' = "records"
            /\ UNCHANGED <<rpending, chan, sent>>
       ELSE IF rx_alive
       THEN /\ Len(chan) < 1
            /\ chan' = ChanSend(chan, Head(rpending))
            /\ sent' = Append(sent, Head(rpending))
            /\ rpending' = Tail(rpending)
            /\ rpc' = "send"
       ELSE /\ rpc' = AfterSendError
            /\ rpending' = <<>>
            /\ UNCHANGED <<chan, sent>>
    /\ UNCHANGED <<rrecs, rsince, rfailed, rlen, rhandled>>
    /\ UNCHANGED <<rx_alive, tunnels, load_calls, loaded, tick, taken>>
    /\ UNCHANGED <<net, presence_vars>>

\* lines 227-238: one tx.send, or the end of the address loops
RSend ==
    /\ rpc = "send"
    /\ IF rpending = <<>>
       THEN /\ rpc' = "records"
            /\ UNCHANGED <<rpending, chan, sent>>
       ELSE IF rx_alive
       THEN /\ chan' = ChanSend(chan, Head(rpending))
            /\ sent' = Append(sent, Head(rpending))
            /\ rpending' = Tail(rpending)
            /\ rpc' = "send"
       ELSE \* "receiver is dead": return
            /\ rpc' = AfterSendError
            /\ rpending' = <<>>
            /\ UNCHANGED <<chan, sent>>
    /\ UNCHANGED <<rrecs, rsince, rfailed, rlen, rhandled>>
    /\ UNCHANGED <<rx_alive, tunnels, load_calls, loaded, tick, taken>>
    /\ UNCHANGED <<net, presence_vars>>

\* the for loop is over (line 240)
RCycleEnd ==
    /\ rpc = "records"
    /\ rrecs = <<>>
    /\ rpc' = "sleep"
    /\ UNCHANGED <<rrecs, rpending, rsince, rfailed, rlen, rhandled>>
    /\ UNCHANGED <<net, presence_vars, registry_vars>>

\* line 241: std::thread::sleep(3 s), then the next iteration
RSleep ==
    /\ rpc = "sleep"
    /\ rpc' = "query"
    /\ rsince' = "sleep"
    /\ rfailed' = "no"
    /\ rlen' = 0
    /\ rhandled' = 0
    /\ UNCHANGED <<rrecs, rpending>>
    /\ UNCHANGED <<net, presence_vars, registry_vars>>

ResolverNext == RQuery \/ RRecord \/ RSend \/ RCycleEnd \/ RSleep

\* ------------------------------------------------------------------------
\* Registry: the timer callback of main
\* ------------------------------------------------------------------------
\* variant: the newest message is delivered first
ChanRecv_Newest(q) == [msg |-> q[Len(q)], rest |-> SubSeq(q, 1, Len(q) - 1)]

\* rx.recv_timeout(0) on a channel that holds a message: the oldest one
ChanRecv(q) == [msg |-> Head(q), rest |-> Tail(q)]

\* lines 260-263
TunnelKey(msg) == [hostname |-> msg.hostname, socket |-> msg.socket]

\* variant: a key whose module failed to load counts as absent
ContainsKey_ValidOnly(map, key) == key \in DOMAIN map /\ map[key].module # "null"

\* line 264: tunnels.borrow().contains_key(&key)
ContainsKey(map, key) == key \in DOMAIN map

Calls(key) == IF key \in DOMAIN load_calls THEN load_calls[key] ELSE 0

\* the string literals of the callback, as code points
\* "am=", "tp=", "et=", "cn="
PFX_AM == <<97, 109, 61>>
PFX_TP == <<116, 112, 61>>
PFX_ET == <<101, 116, 61>>
PFX_CN == <<99, 110, 61>>
\* "UDP", "TCP"
STR_UDP == <<85, 68, 80>>
STR_TCP == <<84, 67, 80>>
\* "0", "1", "2", "3", "4"
STR_0 == <<48>>
STR_1 == <<49>>
STR_2 == <<50>>
STR_3 == <<51>>
STR_4 == <<52>>
\* ','
COMMA == 44
\* "<unnamed>"
STR_UNNAMED == <<60, 117, 110, 110, 97, 109, 101, 100, 62>>
\* " (IPv4)"
STR_IPV4_SUFFIX == <<32, 40, 73, 80, 118, 52, 41>>

\* str::strip_prefix
strip_prefix(s, p) ==
    IF Len(s) >= Len(p) /\ SubSeq(s, 1, Len(p)) = p
    THEN [tag |-> "Some", val |-> Drop(s, Len(p))]
    ELSE [tag |-> "None"]

\* str::split(sep): the pieces between the separators; an empty string
\* gives one empty piece
RECURSIVE split(_, _)
split(s, sep) ==
    IF \A i \in 1..Len(s) : s[i] # sep THEN <<s>>
    ELSE LET j == CHOOSE i \in 1..Len(s) :
                      s[i] = sep /\ \A k \in 1..(i - 1) : s[k] # sep
         IN <<SubSeq(s, 1, j - 1)>> \o split(Drop(s, j), sep)

\* variant: the value is compared with the whole list
clc_Whole(l, v) == l = v

\* comma-separated list contains (lines 293-295; lines 297-307 spell the
\* same expression out)
clc(l, v) == \E i \in 1..Len(split(l, COMMA)) : split(l, COMMA)[i] = v

\* lines 267-270: records.iter().find_map(|r| r.strip_prefix("am="))
RECURSIVE FindMapAm(_)
FindMapAm(records) ==
    IF records = <<>> THEN [tag |-> "None"]
    ELSE LET r == strip_prefix(Head(records), PFX_AM) IN
         IF r.tag = "Some" THEN r ELSE FindMapAm(Tail(records))

\* lines 267-272
readable_name(records) ==
    LET r == FindMapAm(records) IN
    IF r.tag = "Some" THEN r.val ELSE STR_UNNAMED

\* Properties::insert: the value of a key already present is replaced
PropInsert(prop, key, value) == (key :> value) @@ prop

\* lines 275-290: the properties! block
InitialProps(msg) ==
    [k \in {"raop.ip", "raop.ip.version", "raop.port", "raop.name",
            "raop.hostname"} |->
        CASE k = "raop.ip" -> msg.socket.ip
          [] k = "raop.ip.version" -> IF msg.socket.version = 4 THEN "4" ELSE "6"
          [] k = "raop.port" -> msg.socket.port
          [] k = "raop.name" ->
                readable_name(msg.records)
                    \o (IF msg.socket.version = 4 THEN STR_IPV4_SUFFIX ELSE <<>>)
          [] OTHER -> msg.hostname]

\* lines 296-329: the body of `for record in &msg.records` for one record
RecordProps(prop, record) ==
    LET tp == strip_prefix(record, PFX_TP)
        et == strip_prefix(record, PFX_ET)
        cn == strip_prefix(record, PFX_CN)
    IN
    IF tp.tag = "Some" THEN
        IF clc(tp.val, STR_UDP) THEN PropInsert(prop, "raop.transport", "udp")
        ELSE IF clc(tp.val, STR_TCP) THEN PropInsert(prop, "raop.transport", "tcp")
        ELSE prop
    ELSE IF et.tag = "Some" THEN
        IF clc(et.val, STR_1) THEN PropInsert(prop, "raop.encryption.type", "RSA")
        ELSE IF clc(et.val, STR_4)
        THEN PropInsert(prop, "raop.encryption.type", "auth_setup")
        ELSE PropInsert(prop, "raop.encryption.type", "none")
    ELSE IF cn.tag = "Some" THEN
        IF clc(cn.val, STR_3) THEN PropInsert(prop, "raop.audio.codec", "AAC-ELD")
        ELSE IF clc(cn.val, STR_2) THEN PropInsert(prop, "raop.audio.codec", "AAC")
        ELSE IF clc(cn.val, STR_1) THEN PropInsert(prop, "raop.audio.codec", "ALAC")
        ELSE IF clc(cn.val, STR_0) THEN PropInsert(prop, "raop.audio.codec", "PCM")
        ELSE prop
    ELSE prop

\* lines 291-330: the for loop over the records, in list order
RECURSIVE RecordLoop(_, _)
RecordLoop(prop, records) ==
    IF records = <<>> THEN prop
    ELSE RecordLoop(RecordProps(prop, Head(records)), Tail(records))

\* lines 267-330: the properties handed to pw_context_load_module
ModuleProps(msg) == RecordLoop(InitialProps(msg), msg.records)

\* variant: one invocation drains the channel
TimerTick_DrainAll ==
    /\ rx_alive
    /\ chan' = <<>>
    /\ taken' = taken \o chan
    /\ tick' = IF chan = <<>> THEN "empty" ELSE "event"
    /\ LET new == {[hostname |-> chan[i].hostname, socket |-> chan[i].socket] :
                      i \in 1..Len(chan)} \ DOMAIN tunnels
       IN /\ tunnels' = [k \in new |-> [module |-> "module"]] @@ tunnels
          /\ load_calls' = [k \in new |-> Calls(k) + 1] @@ load_calls
          /\ loaded' = [k \in new |->
                           LET msg == chan[CHOOSE i \in 1..Len(chan) :
                                             TunnelKey(chan[i]) = k]
                           IN [msg |-> msg, prop |-> ModuleProps(msg)]] @@ loaded
    /\ UNCHANGED <<rx_alive, sent>>
    /\ UNCHANGED <<net, presence_vars, resolver_vars>>

\* one invocation of the timer callback (lines 255-357)
TimerTick ==
    /\ rx_alive
    /\ IF chan = <<>>
       THEN \* recv_timeout returned Err: return
            /\ tick' = "empty"
            /\ UNCHANGED <<chan, taken, tunnels, load_calls, loaded>>
       ELSE LET r == ChanRecv(chan)
                key == TunnelKey(r.msg)
            IN /\ chan' = r.rest
               /\ taken' = Append(taken, r.msg)
               /\ IF ContainsKey(tunnels, key)
                  THEN /\ tick' = "event"
                       /\ UNCHANGED <<tunnels, load_calls, loaded>>
                  ELSE \* the module is loaded with the properties built
                       \* from the event; pw_context_load_module gives a
                       \* module or NULL; either is stored
                       \E module \in {"module", "null"} :
                          /\ tick' = "event"
                          /\ load_calls' = (key :> (Calls(key) + 1)) @@ load_calls
                          /\ loaded' = (key :> [msg |-> r.msg,
                                                prop |-> ModuleProps(r.msg)])
                                           @@ loaded
                          /\ tunnels' = (key :> [module |-> module]) @@ tunnels
    /\ UNCHANGED <<rx_alive, sent>>
    /\ UNCHANGED <<net, presence_vars, resolver_vars>>

\* pw.run() returns and main drops the timer with the Receiver in it
\* (lines 361-363); the events still in the channel are dropped with it
MainQuit ==
    /\ rx_alive
    /\ rx_alive' = FALSE
    /\ chan' = <<>>
    /\ UNCHANGED <<tunnels, load_calls, loaded, tick, sent, taken>>
    /\ UNCHANGED <<net, presence_vars, resolver_vars>>

RegistryNext == TimerTick \/ MainQuit

\* ------------------------------------------------------------------------
\* Specifications
\* ------------------------------------------------------------------------
\* the state after construction, with the events q sent by the resolver
\* loop before the first invocation of the timer
InitWith(n, q) ==
    /\ net = n
    /\ ppc = "query"
    /\ precs = <<>>
    /\ resolved_this_time = {}
    /\ resolved = {}
    /\ added_log = {}
    /\ removed_log = {}
    /\ absent = [k \in HostKeys |-> -1]
    /\ gap = [k \in HostKeys |-> -1]
    /\ psince = "start"
    /\ rpc = "query"
    /\ rrecs = <<>>
    /\ rpending = <<>>
    /\ rsince = "start"
    /\ rfailed = "no"
    /\ rlen = 0
    /\ rhandled = 0
    /\ rx_alive = TRUE
    /\ chan = q
    /\ tunnels = <<>>
    /\ load_calls = <<>>
    /\ loaded = <<>>
    /\ tick = "none"
    /\ sent = q
    /\ taken = <<>>

InitOn(n) == InitWith(n, <<>>)

\* the whole program on a link with a single receiver
Init == InitOn(SingleNet)

Next == PresenceNext \/ ResolverNext \/ RegistryNext

Spec == Init /\ [][Next]_vars

\* the events a resolver loop can have sent for one receiver: an IPv4 or a
\* link-local IPv6 socket, and any of the TXT lists
RegistryEvents ==
    {[hostname |-> <<104>>, socket |-> SocketOf(ip, 7000).socket, records |-> t] :
        ip \in {Ip(2, AF_INET4, AddrV4a), Ip(3, AF_INET6, AddrLinkLocal)},
        t \in TxtLists}

\* the registry alone, one event waiting in the channel
RegistryInit == \E e \in RegistryEvents : InitWith(SingleNet, <<e>>)

RegistrySpec == RegistryInit /\ [][RegistryNext]_vars

\* the resolver loop alone, on a link with one receiver whose address list
\* is drawn from ScopeIps
ScopeInit ==
    \E ips \in SeqsUpTo(ScopeIps, MaxIps) :
        InitOn([browse |-> {RecA}, svc |-> {SvcWith(ips)}])

ScopeSpec == ScopeInit /\ [][ResolverNext]_vars

\* the resolver loop alone, on a link whose one advertisement carries a
\* buffer drawn from DecodeInputs
DecodeInit ==
    \E data \in DecodeInputs :
        InitOn([browse |-> {BrowseRecord(2, CLASS_IN, TYPE_PTR, data)},
                svc |-> {SvcOne}])

DecodeSpec == DecodeInit /\ [][ResolverNext]_vars

\* the presence loop alone, every kind of record on the link
PresenceSpec == InitOn(FullNet) /\ [][PresenceNext]_vars

\* the resolver loop, the channel and the registry
PipelineNext == ResolverNext \/ RegistryNext

PipelineSpec == InitOn(PipelineNet) /\ [][PipelineNext]_vars

\* the pipeline with the timer firing again and again: update_timer re-arms
\* it with an interval (line 359) and the main loop runs it while it lives
PipelineLive == PipelineSpec /\ WF_vars(TimerTick)

\* ------------------------------------------------------------------------
\* Properties
\* ------------------------------------------------------------------------
RetriesOf(k) == {h.retries : h \in {x \in resolved : Key(x) = k}}

\* C1 as stated: a host sighted once and absent afterwards is still in the
\* stable set after absent cycles 1..7 and is reported removed by the 8th
\* absent cycle, and by no later one.
C1_RemovedAtEighth ==
    ppc = "sleep" =>
        \A k \in HostKeys :
            /\ absent[k] \in 1..(RETRIES - 1) =>
                  k \in Keys(resolved) /\ k \notin removed_log
            /\ absent[k] = RETRIES => k \in removed_log
            /\ absent[k] > RETRIES => k \notin removed_log

\* C1 amended: a host sighted once and absent afterwards is still in the
\* stable set after each of absent cycles 1..8 (its retries being 8 minus
\* the number of absent cycles), is reported removed and dropped by the 9th
\* consecutive absent cycle, and is never reported removed again while it
\* stays absent.
C1_FlapDamping ==
    ppc = "sleep" =>
        \A k \in HostKeys :
            /\ absent[k] \in 1..RETRIES =>
                  /\ RetriesOf(k) = {RETRIES - absent[k]}
                  /\ k \notin removed_log
            /\ absent[k] = RETRIES + 1 =>
                  k \in removed_log /\ k \notin Keys(resolved)
            /\ absent[k] > RETRIES + 1 =>
                  k \notin removed_log /\ k \notin Keys(resolved)

\* a host has just been reported removed, by its 9th absent cycle
C1_Witness ==
    /\ ppc = "sleep"
    /\ \E k \in HostKeys :
          absent[k] = RETRIES + 1 /\ k \in removed_log /\ k \notin Keys(resolved)

\* C2: a host sighted again after k absent cycles, 0 < k < 8, is in the
\* stable set with retries = 8 at the end of that cycle, and the cycle
\* reports it neither removed nor added.
C2_HysteresisReset ==
    ppc = "sleep" =>
        \A k \in HostKeys :
            gap[k] \in 1..(RETRIES - 1) =>
                /\ RetriesOf(k) = {RETRIES}
                /\ k \notin removed_log
                /\ k \notin added_log

\* a host is back after 7 absent cycles
C2_Witness ==
    /\ ppc = "sleep"
    /\ \E k \in HostKeys : gap[k] = RETRIES - 1 /\ RetriesOf(k) = {RETRIES}

TakenKeys == {TunnelKey(taken[i]) : i \in 1..Len(taken)}

TimesTaken(key) == Cardinality({i \in 1..Len(taken) : TunnelKey(taken[i]) = key})

C4_NoImmediateRetry == psince # "retry" /\ rsince # "retry"

\* C5: a record with a label longer than the rest of its buffer is skipped
\* as a decode error; the presence loop is never ended by it.
C5_LongLabelSkipped == ppc # "panicked"

\* C6 as stated: after a resolve_service failure no later record of the
\* same cycle is resolved.
C6_CycleAbandoned == rfailed # "continued"

\* C6 amended: a resolve_service failure skips only the browse record it
\* was called for; the for loop still enters its body for every record of
\* the answer before the loop sleeps.
C6_OnlyRecordSkipped ==
    (rpc = "sleep" /\ rfailed # "no") => rhandled = rlen

\* a cycle whose first record failed to resolve went on to its second one
C6_Witness ==
    /\ rpc = "sleep"
    /\ rfailed = "continued"
    /\ rlen >= 2
    /\ rhandled = rlen

\* C7: the events taken by the timer callback are a prefix of the events
\* sent by the resolver loop.
C7_Fifo ==
    /\ Len(taken) <= Len(sent)
    /\ taken = SubSeq(sent, 1, Len(taken))

\* two different events were pending together and were taken in send order
C7_Witness ==
    /\ Len(taken) >= 2
    /\ taken[1] # taken[2]
    /\ chan # <<>>

\* C8: once the Receiver is dropped, a tx.send of the resolver loop fails
\* and ends the loop; the ended loop takes no further step (no query, no
\* send); none of this touches the presence loop, which can still step.
C8_ClosureEndsResolver ==
    /\ [][/\ (RSend /\ ~rx_alive /\ rpending # <<>>) => rpc' = "done"
          /\ rpc = "done" => UNCHANGED <<resolver_vars, sent>>
          /\ RSend => UNCHANGED presence_vars]_vars
    /\ [](rpc = "done" => ~rx_alive /\ ppc \in {"query", "records", "sleep"})

\* the resolver loop has ended on a closed channel while the presence loop
\* is in the middle of a cycle
C8_Witness == rpc = "done" /\ ~rx_alive /\ ppc = "records" /\ precs # <<>>

\* C9: one invocation of the timer callback takes at most one event, and
\* on an empty channel it returns with the tunnel map, the load calls and
\* the channel as they were.
C9_OnePerTick ==
    [][TimerTick =>
          /\ Len(taken') <= Len(taken) + 1
          /\ Len(chan') >= Len(chan) - 1
          /\ chan = <<>> => UNCHANGED <<tunnels, load_calls, chan, taken>>]_vars

\* the callback ran on an empty channel after it had created a tunnel, and
\* events were pending together before
C9_Witness ==
    /\ tick = "empty"
    /\ tunnels # <<>>
    /\ Len(taken) >= 2

\* C10: while the Receiver exists every event sent is either pending or
\* taken exactly once, and with the timer firing again and again the i-th
\* event sent is eventually the i-th event taken (unless the Receiver is
\* dropped first).
C10_ExactlyOnce ==
    /\ [](rx_alive => sent = taken \o chan)
    /\ \A i \in 1..MaxSent :
          [](Len(sent) >= i => <>(Len(taken) >= i \/ ~rx_alive))

\* every event of a full run was taken
C10_Witness == rx_alive /\ Len(sent) = MaxSent /\ taken = sent

\* C16: while the Receiver exists a tx.send of the resolver loop is never
\* held back by the events already pending and always adds its event at
\* the end of the channel, so the channel holds every event that was sent
\* and not yet taken, however many those are.
C16_NoBackpressure ==
    /\ []((rpc = "send" /\ rx_alive) => ENABLED RSend)
    /\ [][(RSend /\ rx_alive /\ rpending # <<>>) =>
              /\ chan' = Append(chan, Head(rpending))
              /\ rpc' = "send"]_vars
    /\ [](rx_alive => Len(chan) = Len(sent) - Len(taken))

\* the timer has not run yet and every event the resolver loop has sent,
\* as many as the bound of the model lets it send, is pending
C16_Witness == rx_alive /\ tick = "none" /\ Len(chan) = MaxSent /\ Len(chan) > 1

\* ------------------------------------------------------------------------
\* Properties of one cycle of the presence loop
\* ------------------------------------------------------------------------
\* the step that ends a successful cycle: the records are all handled and
\* the loop goes to its sleep
CycleEnds == ppc = "records" /\ precs = <<>> /\ ppc' = "sleep"

Identity(h) == <<h.ifindex, h.name, h.domain>>

Sighted(h) == \E x \in resolved_this_time : Identity(x) = Identity(h)

\* C17: in every successful cycle a host of the previous stable set that
\* was not sighted is kept with retries decreased by exactly 1 and not
\* reported removed if its retries were above 0, and is dropped and
\* reported removed if they were 0; a sighted host is neither decremented
\* nor reported removed.
C17_AbsentTransition ==
    [][CycleEnds =>
          \A h \in resolved :
              /\ (~Sighted(h) /\ h.retries > 0) =>
                    /\ [h EXCEPT !.retries = h.retries - 1] \in resolved'
                    /\ \A x \in resolved' : Identity(x) = Identity(h) =>
                                                 x.retries = h.retries - 1
                    /\ Identity(h) \notin removed_log'
              /\ (~Sighted(h) /\ h.retries = 0) =>
                    /\ \A x \in resolved' : Identity(x) # Identity(h)
                    /\ Identity(h) \in removed_log'
              /\ Sighted(h) =>
                    /\ \E x \in resolved' : Identity(x) = Identity(h)
                    /\ \A x \in resolved' : Identity(x) = Identity(h) =>
                                                 x.retries >= h.retries
                    /\ Identity(h) \notin removed_log']_vars

\* one cycle has dropped a host and decremented another
C17_Witness ==
    /\ ppc = "sleep"
    /\ removed_log # {}
    /\ \E h \in resolved : h.retries = RETRIES - 1 /\ absent[Identity(h)] = 1

\* C18: in every successful cycle the hosts reported added are exactly the
\* sighted hosts whose identity was not in the previous stable set; a host
\* kept by its retry budget is not reported added, no host is reported
\* added and removed by the same cycle, and a host sighted again after its
\* removal is reported added again and stored with retries = 8.
C18_AddedReports ==
    /\ [][CycleEnds =>
             /\ added_log' = {Identity(x) : x \in resolved_this_time}
                                 \ {Identity(h) : h \in resolved}
             /\ added_log' \cap removed_log' = {}
             /\ \A h \in resolved :
                   (~Sighted(h) /\ h.retries > 0) => Identity(h) \notin added_log'
             /\ \A k \in added_log' :
                   \E x \in resolved' : Identity(x) = k /\ x.retries = RETRIES]_vars
    /\ [](ppc = "sleep" =>
             \A k \in HostKeys :
                 gap[k] > RETRIES => k \in added_log /\ RetriesOf(k) = {RETRIES})

\* a host that had been removed is sighted and reported added again
C18_Witness ==
    /\ ppc = "sleep"
    /\ \E k \in HostKeys :
          gap[k] = RETRIES + 1 /\ k \in added_log /\ RetriesOf(k) = {RETRIES}

\* C19: the stable set never holds two entries of one identity, every
\* retries value is in 0..8, and an entry has retries = 8 exactly when the
\* most recent successful cycle sighted it.
C19_StableSetInvariant ==
    /\ \A x, y \in resolved : Identity(x) = Identity(y) => x = y
    /\ \A h \in resolved :
          /\ h.retries \in 0..RETRIES
          /\ h.retries = RETRIES <=> absent[Identity(h)] = 0

\* the stable set holds a host sighted by the last cycle beside a host on
\* its last retry
C19_Witness ==
    /\ Cardinality(resolved) = 2
    /\ \E x, y \in resolved :
          /\ x.retries = RETRIES /\ absent[Identity(x)] = 0
          /\ y.retries = 0 /\ absent[Identity(y)] = RETRIES

\* C20: an iteration whose browse query fails leaves the stable set as it
\* was (no host added, dropped or decremented), reports no host added or
\* removed, and does not count as an absent cycle of any host.
C20_FailedQueryFrame ==
    [][(ppc = "query" /\ ppc' = "query") =>
          /\ resolved' = resolved
          /\ added_log' = {} /\ removed_log' = {}
          /\ absent' = absent]_vars

\* a query has failed right after another one while the stable set holds
\* a host that has retries left to lose
C20_Witness ==
    /\ ppc = "query"
    /\ psince = "retry"
    /\ \E h \in resolved : h.retries \in 1..(RETRIES - 1)

\* ------------------------------------------------------------------------
\* Properties of the sink properties (timer callback)
\* ------------------------------------------------------------------------
TxtPrefixes == {PFX_AM, PFX_TP, PFX_ET, PFX_CN}

HasPrefix(r, p) == Len(r) >= Len(p) /\ \A i \in 1..Len(p) : r[i] = p[i]

\* the entries of a list that no earlier entry shares a key prefix with
FirstPerPrefix(records) ==
    LET keep == {i \in 1..Len(records) :
                    \A p \in TxtPrefixes :
                        HasPrefix(records[i], p) =>
                            \A j \in 1..(i - 1) : ~HasPrefix(records[j], p)}
        RECURSIVE Pick(_)
        Pick(i) == IF i > Len(records) THEN <<>>
                   ELSE (IF i \in keep THEN <<records[i]>> ELSE <<>>) \o Pick(i + 1)
    IN Pick(1)

\* C11 as stated: when the text list of an event holds more than one entry
\* with the same prefix among am=, tp=, et=, cn=, the first such entry
\* determines the sink property and the later ones do not change it: the
\* module is loaded with the properties of the list cut down to the first
\* entry of each prefix.
C11_FirstEntryWins ==
    \A key \in DOMAIN loaded :
        loaded[key].prop =
            ModuleProps([loaded[key].msg EXCEPT !.records = FirstPerPrefix(@)])

AtMostOnePerPrefix(records) == FirstPerPrefix(records) = records

HasEntry(records, p) == \E i \in 1..Len(records) : HasPrefix(records[i], p)

\* the text after the prefix, of the one entry that carries it
ValueOf(records, p) ==
    LET i == CHOOSE i \in 1..Len(records) : HasPrefix(records[i], p)
    IN SubSeq(records[i], Len(p) + 1, Len(records[i]))

\* v is one of the items of the comma list l
ListHas(l, v) ==
    \E a \in 1..(Len(l) + 1) :
        LET b == a + Len(v) - 1 IN
        /\ a = 1 \/ l[a - 1] = COMMA
        /\ b <= Len(l)
        /\ \A i \in 1..Len(v) : l[a + i - 1] = v[i]
        /\ b = Len(l) \/ l[b + 1] = COMMA

PropOr(prop, k) == IF k \in DOMAIN prop THEN prop[k] ELSE "unset"

\* C12: for a text list with at most one entry per key prefix the module
\* is loaded with transport udp/tcp/unset, encryption RSA/auth_setup/none
\* (unset without an et= entry), codec AAC-ELD/AAC/ALAC/PCM/unset for the
\* highest of 3, 2, 1, 0 in the cn= list, and the am= text (or "<unnamed>")
\* as display name, followed by " (IPv4)" for an IPv4 address;
\* ["tp=TCP","et=1","cn=2","am=Kitchen"] gives tcp, RSA, AAC, Kitchen and
\* ["cn=99"] leaves the codec unset.
C12_PropertyMapping ==
    \A key \in DOMAIN loaded :
        LET recs == loaded[key].msg.records
            prop == loaded[key].prop
            v4 == loaded[key].msg.socket.version = 4
            tp == ValueOf(recs, PFX_TP)
            et == ValueOf(recs, PFX_ET)
            cn == ValueOf(recs, PFX_CN)
        IN
        /\ AtMostOnePerPrefix(recs) =>
              /\ PropOr(prop, "raop.transport") =
                    IF ~HasEntry(recs, PFX_TP) THEN "unset"
                    ELSE IF ListHas(tp, STR_UDP) THEN "udp"
                    ELSE IF ListHas(tp, STR_TCP) THEN "tcp"
                    ELSE "unset"
              /\ PropOr(prop, "raop.encryption.type") =
                    IF ~HasEntry(recs, PFX_ET) THEN "unset"
                    ELSE IF ListHas(et, STR_1) THEN "RSA"
                    ELSE IF ListHas(et, STR_4) THEN "auth_setup"
                    ELSE "none"
              /\ PropOr(prop, "raop.audio.codec") =
                    IF ~HasEntry(recs, PFX_CN) THEN "unset"
                    ELSE IF ListHas(cn, STR_3) THEN "AAC-ELD"
                    ELSE IF ListHas(cn, STR_2) THEN "AAC"
                    ELSE IF ListHas(cn, STR_1) THEN "ALAC"
                    ELSE IF ListHas(cn, STR_0) THEN "PCM"
                    ELSE "unset"
              /\ prop["raop.name"] =
                    (IF HasEntry(recs, PFX_AM) THEN ValueOf(recs, PFX_AM)
                     ELSE STR_UNNAMED)
                        \o (IF v4 THEN STR_IPV4_SUFFIX ELSE <<>>)
        /\ recs = TxtKitchen =>
              /\ prop["raop.transport"] = "tcp"
              /\ prop["raop.encryption.type"] = "RSA"
              /\ prop["raop.audio.codec"] = "AAC"
              /\ prop["raop.name"] =
                    <<75, 105, 116, 99, 104, 101, 110>>
                        \o (IF v4 THEN STR_IPV4_SUFFIX ELSE <<>>)
        /\ recs = TxtCn99 => "raop.audio.codec" \notin DOMAIN prop

\* the module of an IPv6 receiver has been loaded from the list
\* ["tp=TCP","et=1","cn=2","am=Kitchen"]
C12_Witness ==
    \E key \in DOMAIN loaded :
        /\ loaded[key].msg.records = TxtKitchen
        /\ loaded[key].msg.socket.version = 6
        /\ loaded[key].prop["raop.name"] = <<75, 105, 116, 99, 104, 101, 110>>

\* ------------------------------------------------------------------------
\* Properties of the socket addresses (resolver loop)
\* ------------------------------------------------------------------------
\* the address tuples of the receiver on the link
NetIps == (CHOOSE x \in net.svc : TRUE).srvs[1].ips

\* fe80::/10
InLinkLocalPrefix(a) == a[1] = 254 /\ a[2] \in 128..191

\* the socket addresses C13 asks for, for a list of address tuples
RECURSIVE ScopedSockets(_)
ScopedSockets(ips) ==
    IF ips = <<>> THEN <<>>
    ELSE LET ip == Head(ips) IN
         (IF ip.af = AF_INET6 /\ Len(ip.address) = 16
          THEN <<[version |-> 6, ip |-> ip.address, port |-> 7000, flowinfo |-> 0,
                  scope_id |-> IF InLinkLocalPrefix(ip.address)
                               THEN ip.ifindex ELSE 0]>>
          ELSE IF ip.af = AF_INET4 /\ Len(ip.address) = 4
          THEN <<[version |-> 4, ip |-> ip.address, port |-> 7000]>>
          ELSE <<>>) \o ScopedSockets(Tail(ips))

RECURSIVE Repeat(_, _)
Repeat(sq, k) == IF k = 0 THEN <<>> ELSE sq \o Repeat(sq, k - 1)

\* C13: the events sent and about to be sent for the answers resolved so
\* far carry, per answer and in the order of its address tuples, one socket
\* address for every 16-byte IPv6 tuple (scope id = interface index inside
\* fe80::/10, 0 outside) and one without scope id for every 4-byte IPv4
\* tuple; a tuple of any other family/length gives no event and the tuples
\* after it still give theirs.
C13_ScopeId ==
    LET out == sent \o rpending
        sockets == [i \in 1..Len(out) |-> out[i].socket]
    IN /\ \E k \in 0..Len(out) : sockets = Repeat(ScopedSockets(NetIps), k)
       /\ \A i \in 1..Len(out) :
             /\ out[i].socket.version = 4 => "scope_id" \notin DOMAIN out[i].socket
             /\ (out[i].socket.version = 6 /\ out[i].socket.ip = AddrLinkLocal)
                   => out[i].socket.scope_id = 3

\* fe80::1 on interface 3 has been sent with scope id 3 although the tuple
\* before it was skipped
C13_Witness ==
    /\ NetIps = <<Ip(2, AF_INET4, <<10, 0, 0>>), Ip(3, AF_INET6, AddrLinkLocal)>>
    /\ \E i \in 1..Len(sent) :
          sent[i].socket.ip = AddrLinkLocal /\ sent[i].socket.scope_id = 3

\* ------------------------------------------------------------------------
\* Properties of the record decoder
\* ------------------------------------------------------------------------
\* the buffer of the advertisement on the link
NetData == (CHOOSE x \in net.browse : TRUE).data

\* what is left after the name holds less than the 10 bytes of type, class,
\* ttl and payload length, or less payload than it declares
CutShort(after_name) ==
    \/ Len(after_name) < 10
    \/ after_name[9] * 256 + after_name[10] > Len(after_name) - 10

\* the resolver loop has gone through the one record of an answer without
\* resolving a service for it
RecordSkipped ==
    rpc = "records" /\ rrecs = <<>> /\ rlen = 1 /\ rhandled = 1 /\ rfailed = "no"

\* C14: when the name of a buffer decodes but type, class, ttl or payload
\* length is cut short, or the declared payload length exceeds the bytes
\* left after it, parse_rr returns a decode error and no record: it does
\* not panic, and the loop that called it skips the record and emits
\* nothing.
C14_TruncationIsError ==
    LET n == parse_name(NetData) IN
    (n.tag = "ok" /\ CutShort(n.rest)) =>
        /\ parse_rr(NetData) = [tag |-> "err"]
        /\ rpc \notin {"panicked", "send"}
        /\ sent = <<>>

\* a record whose payload is shorter than declared has been skipped
C14_Witness ==
    /\ RecordSkipped
    /\ LET n == parse_name(NetData) IN
         /\ n.tag = "ok"
         /\ Len(n.rest) >= 10
         /\ n.rest[9] * 256 + n.rest[10] > Len(n.rest) - 10

RECURSIVE JoinLabels(_)
JoinLabels(labels) ==
    IF labels = <<>> THEN <<>>
    ELSE IF Len(labels) = 1 THEN labels[1]
    ELSE labels[1] \o <<46>> \o JoinLabels(Tail(labels))

\* C15: parse_rr of an encoded synthetic record (labels being non-empty
\* strings) followed by trailing bytes returns the labels joined with '.',
\* the type, class, ttl and payload of the record, and exactly the
\* trailing bytes as remaining input.
C15_RoundTrip ==
    \A rec \in SynthRecords, t \in Trailings :
        NetData = EncodeRR(rec) \o t =>
            parse_rr(NetData) =
                [tag |-> "ok", rest |-> t,
                 val |-> [name |-> JoinLabels(rec.labels), type_ |-> rec.type_,
                          class |-> rec.class, ttl |-> rec.ttl,
                          rdata |-> rec.rdata]]

\* the loop has decoded a two-label record followed by a trailing byte and
\* gone on to resolve the service it points to
C15_Witness ==
    /\ NetData = EncodeRR([labels |-> <<(<<97, 46>>), (<<233, 120>>)>>,
                           type_ |-> TYPE_PTR, class |-> CLASS_IN, ttl |-> 120,
                           rdata |-> <<1, 97, 0>>]) \o <<7>>
    /\ parse_rr(NetData).val.name = <<97, 46, 46, 233, 120>>
    /\ rpc = "send"
    /\ rhandled = 1

====
